---- MODULE Spec2Model ----
(***************************************************************************)
(* Backend discovery, resolution and the factory of sage_sms               *)
(* (src/sage_sms/factory.py), as a state machine over the two process-wide *)
(* dictionaries of BackendModuleLoader, the interpreter's module table and *)
(* the package directories that discovery walks.                           *)
(* SmsService (src/sage_sms/services.py) and threads sharing the loader    *)
(* have state machines of their own over further variables.                *)
(***************************************************************************)
EXTENDS Integers, Sequences, FiniteSets, TLC

VARIABLES
    fs,            \* package directories on disk: namespace -> unit -> body of <unit>.py
    sysModules,    \* the interpreter's table of imported modules: <<namespace, unit>> -> body
    registry,      \* BackendModuleLoader._provider_classname_map: module name -> class name
    cache,         \* BackendModuleLoader._cached_backends: provider name -> class
    factory,       \* the SMSBackendFactory the caller holds (settings, base_package)
    scanned,       \* namespaces a discovery pass has walked so far
    resolved,      \* provider name -> the class its first successful resolution returned
    fsChanges,     \* number of changes made to the directories
    last,          \* the outcome of the last call
    svcProvider,   \* SmsService._provider: the provider object the service is bound to
    requested,     \* the provider passed to the latest SmsService(...) or set_provider(...)
    received,      \* provider object -> number of calls it has received
    inflight,      \* a send that has read self._provider and has not yet made the call
    svcLast,       \* the outcome of the last SmsService call
    threads        \* thread -> where it stands in __init__ / get_backend, and its locals

loaderVars == <<fs, sysModules, registry, cache, factory, scanned, resolved, fsChanges, last>>

svcVars == <<svcProvider, requested, received, inflight, svcLast>>

vars == <<loaderVars, svcVars, threads>>

----------------------------------------------------------------------------
(* Bounds *)

MaxFsChanges == 1

MaxSends == 2      \* calls the stub providers receive in one run

MaxBulk == 2       \* length of the phone number list of send_bulk_messages

----------------------------------------------------------------------------
(* Dictionaries as functions *)

EmptyDict == [x \in {} |-> "none"]

Put(d, k, v) == [x \in (DOMAIN d) \cup {k} |-> IF x = k THEN v ELSE d[x]]

----------------------------------------------------------------------------
(* Classes and module bodies *)

Builtin == "builtin"

ClassObj(name, ns, unit, body) == [name |-> name, ns |-> ns, unit |-> unit, body |-> body]

NoClass == ClassObj("<none>", "<none>", "<none>", "<none>")

ConsoleSMSBackend == ClassObj("ConsoleSMSBackend", "sage_sms.backends", "base", Builtin)

ISmsProvider == ClassObj("ISmsProvider", "sage_sms.design.interfaces", "provider", Builtin)

UnitNames == {"sms_ir", "kavenegar"}

ExistingNamespaces == {"pkg_a", "pkg_b"}

Namespaces == ExistingNamespaces \cup {"no_such_pkg"}

NoFile == "<nofile>"

\* The bodies a unit file can have.  "one": imports the interface and a validator
\* and defines one provider class (backend/smsir.py).  "two": a helper class, a plain value and two provider classes.
\* "none": no provider class.  "alt": a provider class of another name.
\* "alias": a provider class bound to an attribute that is not its __name__.
\* "broken": executing the file raises ImportError.  "raising": executing the
\* file raises SMSProviderOperationError.
GoodBodies == {"one", "two", "none", "alt", "alias"}

BodyIds == GoodBodies \cup {"broken", "raising"}

Item(attr, kind, name, provider) ==
    [attr |-> attr, kind |-> kind, name |-> name, provider |-> provider]

BodyItems(b) ==
    CASE b = "one"   -> << Item("ISmsProvider", "iface", "ISmsProvider", TRUE),
                           Item("PhoneNumberValidator", "type", "PhoneNumberValidator", FALSE),
                           Item("SmsIr", "type", "SmsIr", TRUE) >>
      [] b = "two"   -> << Item("Helper", "type", "Helper", FALSE),
                           Item("logger", "value", "logger", FALSE),
                           Item("First", "type", "First", TRUE),
                           Item("Second", "type", "Second", TRUE) >>
      [] b = "none"  -> << Item("ISmsProvider", "iface", "ISmsProvider", TRUE),
                           Item("Helper", "type", "Helper", FALSE),
                           Item("logger", "value", "logger", FALSE) >>
      [] b = "alt"   -> << Item("ISmsProvider", "iface", "ISmsProvider", TRUE),
                           Item("Other", "type", "Other", TRUE) >>
      [] b = "alias" -> << Item("Backend", "type", "SmsIr", TRUE) >>
      [] OTHER       -> << >>

BodyRaises(b) ==
    CASE b = "broken"  -> "ImportError"
      [] b = "raising" -> "SMSProviderOperationError"
      [] OTHER         -> "none"

\* module.__dict__ of unit `unit` of namespace `ns` executed from body `b`:
\* the attributes in definition order, each bound to an object.
ModuleDict(ns, unit, b) ==
    [i \in 1..Len(BodyItems(b)) |->
        LET it == BodyItems(b)[i] IN
        [attr     |-> it.attr,
         isType   |-> it.kind # "value",
         provider |-> it.provider,
         cls      |-> CASE it.kind = "iface" -> ISmsProvider
                        [] it.kind = "type"  -> ClassObj(it.name, ns, unit, b)
                        [] OTHER             -> NoClass]]

----------------------------------------------------------------------------
(* Exceptions *)

NoExc == "none"

\* SMSBackendError and its subclasses (helper/exceptions.py).
Taxonomy ==
    {"SMSBackendError", "SMSConfigurationError", "SMSConnectionError",
     "SMSAuthenticationError", "SMSProviderError", "SMSProviderNotFoundError",
     "SMSProviderExistsError", "SMSProviderOperationError", "SMSMessageError",
     "SMSMessageSendError", "SMSMessageFormatError", "SMSUnexpectedError"}

IsSMSBackendError(exc) == exc \in Taxonomy

----------------------------------------------------------------------------
(* The directory walk and the import machinery *)

File(stem, ext) == [stem |-> stem, ext |-> ext]

InitFile == File("__init__", ".py")

\* The files of a package directory in enumeration order.
AllFiles ==
    << InitFile, File("sms_ir", ".py"), File("README", ".md"), File("kavenegar", ".py") >>

OnDisk(fsys, ns, file) ==
    IF file.stem \in UnitNames /\ file.ext = ".py"
    THEN fsys[ns][file.stem] # NoFile
    ELSE TRUE

\* os.walk(base_path): the files found; a missing directory yields nothing
\* (os.walk ignores the error of listing it).
Walk(fsys, ns) ==
    IF ns \in DOMAIN fsys
    THEN SelectSeq(AllFiles, LAMBDA f : OnDisk(fsys, ns, f))
    ELSE << >>

\* import_module(f"{ns}.{unit}")
ImportModule(ns, unit, mods, fsys) ==
    IF <<ns, unit>> \in DOMAIN mods
    THEN [exc |-> NoExc, body |-> mods[<<ns, unit>>], mods |-> mods]
    ELSE IF ns \notin DOMAIN fsys \/ unit \notin DOMAIN fsys[ns]
    THEN [exc |-> "ModuleNotFoundError", body |-> NoFile, mods |-> mods]
    ELSE IF fsys[ns][unit] = NoFile
    THEN [exc |-> "ModuleNotFoundError", body |-> NoFile, mods |-> mods]
    ELSE IF BodyRaises(fsys[ns][unit]) # NoExc
    THEN [exc |-> BodyRaises(fsys[ns][unit]), body |-> NoFile, mods |-> mods]
    ELSE [exc |-> NoExc, body |-> fsys[ns][unit],
          mods |-> Put(mods, <<ns, unit>>, fsys[ns][unit])]

----------------------------------------------------------------------------
(* BackendModuleLoader.discover_backends *)

IsProviderClass(obj) ==
    obj.isType /\ obj.provider /\ obj.cls # ISmsProvider

\* The object of the first attribute that is a provider class, NoClass if none.
RECURSIVE FirstProviderFrom(_, _)
FirstProviderFrom(dict, i) ==
    IF i > Len(dict) THEN NoClass
    ELSE IF IsProviderClass(dict[i]) THEN dict[i].cls
    ELSE FirstProviderFrom(dict, i + 1)

\* Variant: a name found again is appended to the entry instead of replacing it.
RegisterUnitAppend(reg, module_name, dict) ==
    LET found == FirstProviderFrom(dict, 1) IN
    IF found = NoClass THEN reg
    ELSE IF module_name \in DOMAIN reg
    THEN Put(reg, module_name, reg[module_name] \o found.name)
    ELSE Put(reg, module_name, found.name)

\* Variant: the pass builds its map afresh, so the entry of a unit replaces
\* what was registered before.
RegisterUnitFresh(reg, module_name, dict) ==
    LET found == FirstProviderFrom(dict, 1) IN
    IF found # NoClass THEN Put(EmptyDict, module_name, found.name) ELSE reg

RegisterUnit(reg, module_name, dict) ==
    LET found == FirstProviderFrom(dict, 1) IN
    IF found # NoClass THEN Put(reg, module_name, found.name) ELSE reg

IsBackendFile(file) == file.ext = ".py" /\ file # InitFile

RECURSIVE DiscoverFiles(_, _, _, _, _, _)
DiscoverFiles(files, i, base_package, reg, mods, fsys) ==
    IF i > Len(files) THEN [exc |-> NoExc, reg |-> reg, mods |-> mods]
    ELSE IF ~IsBackendFile(files[i])
    THEN DiscoverFiles(files, i + 1, base_package, reg, mods, fsys)
    ELSE LET module_name == files[i].stem
             imp == ImportModule(base_package, module_name, mods, fsys)
         IN  IF imp.exc # NoExc
             THEN [exc |-> imp.exc, reg |-> reg, mods |-> imp.mods]
             ELSE DiscoverFiles(files, i + 1, base_package,
                      RegisterUnit(reg, module_name,
                                   ModuleDict(base_package, module_name, imp.body)),
                      imp.mods, fsys)

DiscoverBackends(base_package, reg, mods, fsys) ==
    DiscoverFiles(Walk(fsys, base_package), 1, base_package, reg, mods, fsys)

----------------------------------------------------------------------------
(* Settings *)

NoName == "<none>"

ProviderNames == UnitNames \cup {"not_registered"}

\* settings.get("provider"): no block at all, a value that is not a dictionary,
\* or a dictionary whose NAME is missing, empty or a provider name.
ProviderBlocks ==
    {[kind |-> "absent", NAME |-> NoName], [kind |-> "notdict", NAME |-> NoName]}
    \cup {[kind |-> "dict", NAME |-> n] : n \in ProviderNames \cup {NoName, ""}}

DebugValues == {"true", "false", "absent"}

SettingsValues == [debug : DebugValues, provider : ProviderBlocks]

\* settings.get("debug", False)
SettingsGetDebug(settings) ==
    IF settings.debug = "absent" THEN FALSE ELSE settings.debug = "true"

----------------------------------------------------------------------------
(* BackendModuleLoader.load_backend_module *)

Raise(exc, cch, mods) == [exc |-> exc, value |-> NoClass, cache |-> cch, mods |-> mods]

Return(value, cch, mods) == [exc |-> NoExc, value |-> value, cache |-> cch, mods |-> mods]

\* getattr(module, class_name): the class bound to the attribute, NoClass if the
\* module has no such attribute.
RECURSIVE GetAttrFrom(_, _, _)
GetAttrFrom(dict, attr, i) ==
    IF i > Len(dict) THEN NoClass
    ELSE IF dict[i].attr = attr THEN dict[i].cls
    ELSE GetAttrFrom(dict, attr, i + 1)

\* Variant: the cache entry is written with whatever the lookup gave, before the
\* lookup's result is tested.
BindAndCacheStoreFirst(provider_name, base_package, reg, cch, mods, fsys) ==
    LET class_name == reg[provider_name]
        imp == ImportModule(base_package, provider_name, mods, fsys)
    IN  IF imp.exc # NoExc THEN Raise(imp.exc, cch, imp.mods)
        ELSE LET provider_class ==
                     GetAttrFrom(ModuleDict(base_package, provider_name, imp.body),
                                 class_name, 1)
             IN  IF provider_class = NoClass
                 THEN Raise("AttributeError",
                            Put(cch, provider_name, provider_class), imp.mods)
                 ELSE Return(provider_class,
                             Put(cch, provider_name, provider_class), imp.mods)

\* The lines after the cache miss: bind the class and store it in the cache.
BindAndCache(provider_name, base_package, reg, cch, mods, fsys) ==
    LET class_name == reg[provider_name]
        imp == ImportModule(base_package, provider_name, mods, fsys)
    IN  IF imp.exc # NoExc THEN Raise(imp.exc, cch, imp.mods)
        ELSE LET provider_class ==
                     GetAttrFrom(ModuleDict(base_package, provider_name, imp.body),
                                 class_name, 1)
             IN  IF provider_class = NoClass
                 THEN Raise("AttributeError", cch, imp.mods)
                 ELSE Return(provider_class,
                             Put(cch, provider_name, provider_class), imp.mods)

\* Variant: only a missing NAME is a configuration error, an empty one is not.
LoadBackendModuleNoneOnly(provider, base_package, reg, cch, mods, fsys) ==
    IF provider.kind # "dict" THEN Raise("AttributeError", cch, mods)
    ELSE IF provider.NAME = NoName
    THEN Raise("SMSConfigurationError", cch, mods)
    ELSE IF provider.NAME \notin DOMAIN reg
    THEN Raise("SMSProviderNotFoundError", cch, mods)
    ELSE IF provider.NAME \in DOMAIN cch
    THEN Return(cch[provider.NAME], cch, mods)
    ELSE BindAndCache(provider.NAME, base_package, reg, cch, mods, fsys)

\* Variant: no registry membership test, the dictionary lookup raises KeyError.
LoadBackendModuleNoRegistryCheck(provider, base_package, reg, cch, mods, fsys) ==
    IF provider.kind # "dict" THEN Raise("AttributeError", cch, mods)
    ELSE IF provider.NAME \in {NoName, ""}
    THEN Raise("SMSConfigurationError", cch, mods)
    ELSE IF provider.NAME \in DOMAIN cch
    THEN Return(cch[provider.NAME], cch, mods)
    ELSE IF provider.NAME \notin DOMAIN reg
    THEN Raise("KeyError", cch, mods)
    ELSE BindAndCache(provider.NAME, base_package, reg, cch, mods, fsys)

\* Variant: a cache hit returns the entry of the class-name map (a string).
LoadBackendModuleHitReturnsName(provider, base_package, reg, cch, mods, fsys) ==
    IF provider.kind # "dict" THEN Raise("AttributeError", cch, mods)
    ELSE IF provider.NAME \in {NoName, ""}
    THEN Raise("SMSConfigurationError", cch, mods)
    ELSE IF provider.NAME \notin DOMAIN reg
    THEN Raise("SMSProviderNotFoundError", cch, mods)
    ELSE IF provider.NAME \in DOMAIN cch
    THEN Return(ClassObj(reg[provider.NAME], "str", "str", Builtin), cch, mods)
    ELSE BindAndCache(provider.NAME, base_package, reg, cch, mods, fsys)

\* Variant: the cache is written but never read.
LoadBackendModuleNoCacheCheck(provider, base_package, reg, cch, mods, fsys) ==
    IF provider.kind # "dict" THEN Raise("AttributeError", cch, mods)
    ELSE IF provider.NAME \in {NoName, ""}
    THEN Raise("SMSConfigurationError", cch, mods)
    ELSE IF provider.NAME \notin DOMAIN reg
    THEN Raise("SMSProviderNotFoundError", cch, mods)
    ELSE BindAndCache(provider.NAME, base_package, reg, cch, mods, fsys)

LoadBackendModule(provider, base_package, reg, cch, mods, fsys) ==
    IF provider.kind # "dict" THEN Raise("AttributeError", cch, mods)
    ELSE IF provider.NAME \in {NoName, ""}
    THEN Raise("SMSConfigurationError", cch, mods)
    ELSE IF provider.NAME \notin DOMAIN reg
    THEN Raise("SMSProviderNotFoundError", cch, mods)
    ELSE IF provider.NAME \in DOMAIN cch
    THEN Return(cch[provider.NAME], cch, mods)
    ELSE BindAndCache(provider.NAME, base_package, reg, cch, mods, fsys)

----------------------------------------------------------------------------
(* SMSBackendFactory *)

\* Variant: an exception of the discovery pass is logged and not raised.
FactoryInitSwallow(base_package, reg, mods, fsys) ==
    LET d == DiscoverBackends(base_package, reg, mods, fsys) IN
    [raw |-> d.exc, exc |-> NoExc, reg |-> d.reg, mods |-> d.mods]

\* __init__: the discovery pass, any exception of which becomes SMSUnexpectedError.
FactoryInit(base_package, reg, mods, fsys) ==
    LET d == DiscoverBackends(base_package, reg, mods, fsys) IN
    [raw  |-> d.exc,
     exc  |-> IF d.exc # NoExc THEN "SMSUnexpectedError" ELSE NoExc,
     reg  |-> d.reg,
     mods |-> d.mods]

\* Variant: the general except clause comes first and wraps every exception.
ReraiseWrapAll(exc) == "SMSUnexpectedError"

\* The except clauses of get_backend.
Reraise(exc) ==
    IF IsSMSBackendError(exc) THEN exc ELSE "SMSUnexpectedError"

\* Variant: the provider is resolved before the debug flag is looked at.
GetBackendResolveFirst(settings, base_package, reg, cch, mods, fsys) ==
    LET r == LoadBackendModule(settings.provider, base_package, reg, cch, mods, fsys)
    IN  IF r.exc # NoExc
        THEN [raw |-> r.exc, out |-> Raise(Reraise(r.exc), r.cache, r.mods)]
        ELSE IF SettingsGetDebug(settings)
        THEN [raw |-> NoExc, out |-> Return(ConsoleSMSBackend, r.cache, r.mods)]
        ELSE [raw |-> NoExc, out |-> r]

\* `raw` is the exception raised inside the try block, `exc` the one that leaves
\* get_backend.
GetBackend(settings, base_package, reg, cch, mods, fsys) ==
    IF SettingsGetDebug(settings)
    THEN [raw |-> NoExc, out |-> Return(ConsoleSMSBackend, cch, mods)]
    ELSE LET r == LoadBackendModule(settings.provider, base_package, reg, cch, mods, fsys)
         IN  IF r.exc = NoExc THEN [raw |-> NoExc, out |-> r]
             ELSE [raw |-> r.exc, out |-> Raise(Reraise(r.exc), r.cache, r.mods)]

----------------------------------------------------------------------------
(* SmsService *)

\* Provider objects a caller binds to the service.
Providers == {"stubA", "stubB"}

Unbound == "<unbound>"

\* Argument values: a string, a list of strings, None.
Str(x) == <<"str", x>>

List(xs) == <<"list">> \o xs

None == <<"None">>

PhoneNumbers == {"+989120000001", "+989120000002"}

PhoneNumberLists == UNION { [1..n -> PhoneNumbers] : n \in 0..MaxBulk }

Messages == {"hello"}

LineNumbers == {None, Str("3000")}

VerifyValues == {"1234"}

SendOps == {"send_one_message", "send_bulk_messages", "send_verify_message"}

\* What the provider's operation does when it is called.
Returns(v) == [kind |-> "return", val |-> v]

Raises(exc) == [kind |-> "raise", val |-> exc]

Behaviours ==
    { Returns(None), Returns(Str("message-id-1")),
      Raises("SMSMessageSendError"), Raises("ValueError") }

NoBehaviour == [kind |-> "none", val |-> "none"]

\* One call a provider object receives.
Call(provider, op, args) == [provider |-> provider, op |-> op, args |-> args]

\* Variant: the call is wrapped in a handler that swallows the provider's exception.
ForwardSwallow(provider, op, args, behaviour) ==
    [calls |-> << Call(provider, op, args) >>, out |-> Returns(None)]

\* The body shared by the three send methods: one call of the provider's method
\* with the arguments as given; the statement has no `return`, so the method
\* returns None when the provider returns, and an exception passes through.
Forward(provider, op, args, behaviour) ==
    [calls |-> << Call(provider, op, args) >>,
     out   |-> IF behaviour.kind = "raise" THEN behaviour ELSE Returns(None)]

SendOneMessage(provider, phone_number, message, linenumber, behaviour) ==
    Forward(provider, "send_one_message",
            <<Str(phone_number), Str(message), linenumber>>, behaviour)

SendBulkMessages(provider, phone_numbers, message, linenumber, behaviour) ==
    Forward(provider, "send_bulk_messages",
            <<List(phone_numbers), Str(message), linenumber>>, behaviour)

SendVerifyMessage(provider, phone_number, value, behaviour) ==
    Forward(provider, "send_verify_message",
            <<Str(phone_number), Str(value)>>, behaviour)

\* The arguments a caller passes to each send method.
ArgsOf(op) ==
    CASE op = "send_one_message" ->
           { <<Str(n), Str(m), l>> : n \in PhoneNumbers, m \in Messages, l \in LineNumbers }
      [] op = "send_bulk_messages" ->
           { <<List(ns), Str(m), l>> : ns \in PhoneNumberLists, m \in Messages,
                                        l \in LineNumbers }
      [] op = "send_verify_message" ->
           { <<Str(n), Str(v)>> : n \in PhoneNumbers, v \in VerifyValues }

\* service.<op>(*args) on a service whose self._provider evaluates to `provider`.
Send(provider, op, args, behaviour) ==
    CASE op = "send_one_message" ->
           SendOneMessage(provider, args[1][2], args[2][2], args[3], behaviour)
      [] op = "send_bulk_messages" ->
           SendBulkMessages(provider, Tail(args[1]), args[2][2], args[3], behaviour)
      [] op = "send_verify_message" ->
           SendVerifyMessage(provider, args[1][2], args[2][2], behaviour)

\* Variant: a provider once bound is kept.
SetProviderKeepFirst(current, provider) ==
    IF current = Unbound THEN provider ELSE current

\* __init__ and set_provider: self._provider = provider
SetProvider(current, provider) == provider

\* Variant: the attribute is read again when the call is made.
LoadProviderAgain(ref, bound) == bound

\* self._provider is evaluated once, before the arguments and the call; `ref` is
\* the object that read gave, `bound` what the attribute holds when the call is made.
LoadProvider(ref, bound) == ref

NoSend == [active |-> FALSE, op |-> "none", args |-> <<>>, ref |-> Unbound]

SvcOutcome(op, args, ref, behaviour, calls, out) ==
    [op |-> op, args |-> args, ref |-> ref, behaviour |-> behaviour,
     calls |-> calls, out |-> out]

\* The providers' call counters after the calls of one send.
Deliver(rcv, calls) ==
    [q \in Providers |->
        rcv[q] + Cardinality({ i \in 1..Len(calls) : calls[i].provider = q })]

----------------------------------------------------------------------------
(* Threads calling the factory and the loader *)

Threads == {"t1", "t2"}

\* pc: "idle", "discover" (inside discover_backends, before file i), "ready" (the
\* factory is constructed), "bind" (load_backend_module after the cache miss),
\* "store" (before the cache is written), "done".
IdleThread ==
    [pc |-> "idle", ns |-> "<none>", name |-> "<none>", files |-> <<>>, i |-> 0,
     viaFactory |-> FALSE, walked |-> FALSE, miss |-> FALSE, partial |-> FALSE,
     provider_class |-> NoClass, exc |-> NoExc, value |-> NoClass]

\* The keys a complete discovery pass over a namespace registers.
PassRegisters(ns, mods, fsys) == DOMAIN DiscoverBackends(ns, EmptyDict, mods, fsys).reg

\* Another thread is inside a discovery pass over the namespace.
PassInProgress(thr, t, ns) ==
    \E u \in Threads \ {t} : thr[u].pc = "discover" /\ thr[u].ns = ns

\* What the caller of the thread gets for an exception of load_backend_module:
\* get_backend's handlers, or the exception itself on a direct call.
Raised(rec, exc) == IF rec.viaFactory THEN Reraise(exc) ELSE exc

\* load_backend_module up to the cache test (lines 74-87), for a NAME that is a
\* non-empty string.
LoadCheck(rec, t, thr, reg, cch, mods, fsys) ==
    IF rec.name \notin DOMAIN reg
    THEN [rec EXCEPT !.pc = "done",
                     !.exc = Raised(rec, "SMSProviderNotFoundError"),
                     !.partial = /\ PassInProgress(thr, t, rec.ns)
                                 /\ rec.name \in PassRegisters(rec.ns, mods, fsys)]
    ELSE IF rec.name \in DOMAIN cch
    THEN [rec EXCEPT !.pc = "done", !.value = cch[rec.name]]
    ELSE [rec EXCEPT !.pc = "bind", !.miss = TRUE]

----------------------------------------------------------------------------
(* State machine *)

NoProvider == [kind |-> "absent", NAME |-> NoName]

NoFactory ==
    [alive |-> FALSE, settings |-> [debug |-> "absent", provider |-> NoProvider],
     base_package |-> "<none>"]

\* op: the call; ns: its namespace; raw: the exception raised inside the call's try
\* block; exc: the exception that reached the caller; value: the class returned;
\* rescan: the call walked a namespace that had been walked before; before: the
\* class returned by the call just before it, when that was a successful
\* get_backend of the same factory.
Outcome(op, ns, raw, exc, value, rescan, before) ==
    [op |-> op, ns |-> ns, raw |-> raw, exc |-> exc, value |-> value,
     rescan |-> rescan, before |-> before]

InitialFs ==
    [ns \in ExistingNamespaces |->
        IF ns = "pkg_a"
        THEN [u \in UnitNames |-> IF u = "sms_ir" THEN "one" ELSE "two"]
        ELSE [u \in UnitNames |-> IF u = "sms_ir" THEN "alt" ELSE NoFile]]

\* The edits made to the package directories while the process runs.
Edit(ns, unit, body) == [ns |-> ns, unit |-> unit, body |-> body]

Edits ==
    { Edit("pkg_a", "sms_ir", NoFile),       \* the unit is removed
      Edit("pkg_a", "sms_ir", "alias"),
      Edit("pkg_a", "sms_ir", "broken"),     \* the unit no longer imports
      Edit("pkg_b", "kavenegar", "none"),    \* a unit without a provider class is added
      Edit("pkg_b", "kavenegar", "raising") } \* a unit that raises is added

Init ==
    /\ fs = InitialFs
    /\ sysModules = EmptyDict
    /\ registry = EmptyDict
    /\ cache = EmptyDict
    /\ factory = NoFactory
    /\ scanned = {}
    /\ resolved = EmptyDict
    /\ fsChanges = 0
    /\ last = Outcome("start", "<none>", NoExc, NoExc, NoClass, FALSE, NoClass)
    /\ svcProvider = Unbound
    /\ requested = Unbound
    /\ received = [q \in Providers |-> 0]
    /\ inflight = NoSend
    /\ svcLast = SvcOutcome("start", <<>>, Unbound, NoBehaviour, <<>>, NoBehaviour)
    /\ threads = [t \in Threads |-> IdleThread]

\* Someone edits, adds or removes a unit file of a package directory.
FsChange(e) ==
    /\ fsChanges < MaxFsChanges
    /\ fs[e.ns][e.unit] # e.body
    /\ fs' = [fs EXCEPT ![e.ns][e.unit] = e.body]
    /\ fsChanges' = fsChanges + 1
    /\ last' = Outcome("edit", e.ns, NoExc, NoExc, NoClass, FALSE, NoClass)
    /\ UNCHANGED <<sysModules, registry, cache, factory, scanned, resolved>>
    /\ UNCHANGED <<svcVars, threads>>

\* SMSBackendFactory(settings, ns)
Construct(ns) ==
    \E f \in {FactoryInit(ns, registry, sysModules, fs)} :
    \E settings \in SettingsValues :
        /\ registry' = f.reg
        /\ sysModules' = f.mods
        /\ scanned' = scanned \cup {ns}
        /\ factory' = IF f.exc = NoExc
                      THEN [alive |-> TRUE, settings |-> settings, base_package |-> ns]
                      ELSE factory
        /\ last' = Outcome("init", ns, f.raw, f.exc, NoClass, ns \in scanned, NoClass)
        /\ UNCHANGED <<fs, cache, resolved, fsChanges>>
        /\ UNCHANGED <<svcVars, threads>>

\* The first class a successful resolution of each provider name returned.
Remember(res, settings, r) ==
    IF /\ ~SettingsGetDebug(settings)
       /\ r.out.exc = NoExc
       /\ settings.provider.NAME \notin DOMAIN res
    THEN Put(res, settings.provider.NAME, r.out.value)
    ELSE res

\* factory.get_backend()
GetBackendCall ==
    /\ factory.alive
    /\ \E r \in {GetBackend(factory.settings, factory.base_package,
                            registry, cache, sysModules, fs)} :
           /\ cache' = r.out.cache
           /\ sysModules' = r.out.mods
           /\ resolved' = Remember(resolved, factory.settings, r)
           /\ last' = Outcome("get_backend", factory.base_package, r.raw, r.out.exc,
                              r.out.value, FALSE,
                              IF last.op = "get_backend" /\ last.exc = NoExc
                              THEN last.value ELSE NoClass)
    /\ UNCHANGED <<fs, registry, factory, scanned, fsChanges>>
    /\ UNCHANGED <<svcVars, threads>>

Next ==
    \/ \E e \in Edits : FsChange(e)
    \/ \E ns \in Namespaces : Construct(ns)
    \/ GetBackendCall

Spec == Init /\ [][Next]_vars

----------------------------------------------------------------------------
(* State machine of one SmsService, each method call one step *)

SendsLeft == received["stubA"] + received["stubB"] < MaxSends

\* SmsService(provider)
SvcConstruct(provider) ==
    /\ svcProvider = Unbound
    /\ svcProvider' = SetProvider(svcProvider, provider)
    /\ requested' = provider
    /\ svcLast' = SvcOutcome("__init__", <<Str(provider)>>, Unbound, NoBehaviour,
                             <<>>, Returns(None))
    /\ UNCHANGED <<received, inflight>>
    /\ UNCHANGED <<loaderVars, threads>>

\* service.set_provider(provider)
SvcSetProvider(provider) ==
    /\ svcProvider # Unbound
    /\ svcProvider' = SetProvider(svcProvider, provider)
    /\ requested' = provider
    /\ svcLast' = SvcOutcome("set_provider", <<Str(provider)>>, Unbound, NoBehaviour,
                             <<>>, Returns(None))
    /\ UNCHANGED <<received, inflight>>
    /\ UNCHANGED <<loaderVars, threads>>

\* service.send_one_message(...), send_bulk_messages(...) or send_verify_message(...)
\* while the provider behaves as `behaviour`.
SvcSend(op, args, behaviour) ==
    /\ svcProvider # Unbound
    /\ ~inflight.active
    /\ SendsLeft
    /\ \E r \in {Send(LoadProvider(svcProvider, svcProvider), op, args, behaviour)} :
           /\ received' = Deliver(received, r.calls)
           /\ svcLast' = SvcOutcome(op, args, svcProvider, behaviour, r.calls, r.out)
    /\ UNCHANGED <<svcProvider, requested, inflight>>
    /\ UNCHANGED <<loaderVars, threads>>

NextService ==
    \/ \E provider \in Providers : SvcConstruct(provider)
    \/ \E provider \in Providers : SvcSetProvider(provider)
    \/ \E op \in SendOps : \E args \in ArgsOf(op) : \E behaviour \in Behaviours :
           SvcSend(op, args, behaviour)

SpecService == Init /\ [][NextService]_vars

----------------------------------------------------------------------------
(* State machine of one SmsService with set_provider running between the read *)
(* of self._provider and the call a send makes                               *)

\* A send evaluates self._provider.
SendRead(op, args) ==
    /\ svcProvider # Unbound
    /\ ~inflight.active
    /\ SendsLeft
    /\ inflight' = [active |-> TRUE, op |-> op, args |-> args, ref |-> svcProvider]
    /\ UNCHANGED <<svcProvider, requested, received, svcLast>>
    /\ UNCHANGED <<loaderVars, threads>>

\* The send calls the method of the object it read.
SendCall(behaviour) ==
    /\ inflight.active
    /\ \E r \in {Send(LoadProvider(inflight.ref, svcProvider), inflight.op,
                       inflight.args, behaviour)} :
           /\ received' = Deliver(received, r.calls)
           /\ svcLast' = SvcOutcome(inflight.op, inflight.args, inflight.ref, behaviour,
                                    r.calls, r.out)
    /\ inflight' = NoSend
    /\ UNCHANGED <<svcProvider, requested>>
    /\ UNCHANGED <<loaderVars, threads>>

NextServiceRace ==
    \/ \E provider \in Providers : SvcConstruct(provider)
    \/ \E provider \in Providers : SvcSetProvider(provider)
    \/ \E op \in SendOps : \E args \in ArgsOf(op) : SendRead(op, args)
    \/ \E behaviour \in Behaviours : SendCall(behaviour)

SpecServiceRace == Init /\ [][NextServiceRace]_vars

----------------------------------------------------------------------------
(* State machine of threads sharing BackendModuleLoader, one step per unit *)
(* file of a discovery pass and per stage of load_backend_module           *)

\* Thread t calls SMSBackendFactory({"debug": False, "provider": {"NAME": name}}, ns).
TConstruct(t, ns, name) ==
    /\ threads[t].pc = "idle"
    /\ \E files \in {SelectSeq(Walk(fs, ns), IsBackendFile)} :
           threads' = [threads EXCEPT ![t] =
               [IdleThread EXCEPT !.pc = IF files = <<>> THEN "ready" ELSE "discover",
                                  !.ns = ns, !.name = name, !.files = files, !.i = 1,
                                  !.viaFactory = TRUE, !.walked = TRUE]]
    /\ UNCHANGED <<loaderVars, svcVars>>

\* Thread t imports the next unit file of its pass and records its provider class.
TDiscoverStep(t) ==
    /\ threads[t].pc = "discover"
    /\ \E d \in {DiscoverFiles(<<threads[t].files[threads[t].i]>>, 1, threads[t].ns,
                               registry, sysModules, fs)} :
           /\ registry' = d.reg
           /\ sysModules' = d.mods
           /\ threads' = [threads EXCEPT ![t] =
                  IF d.exc # NoExc
                  THEN [@ EXCEPT !.pc = "done", !.exc = "SMSUnexpectedError"]
                  ELSE IF @.i = Len(@.files)
                  THEN [@ EXCEPT !.pc = "ready"]
                  ELSE [@ EXCEPT !.i = @ + 1]]
    /\ UNCHANGED <<fs, cache, factory, scanned, resolved, fsChanges, last, svcVars>>

\* Thread t calls get_backend of the factory it constructed.
TGetBackend(t) ==
    /\ threads[t].pc = "ready"
    /\ threads' = [threads EXCEPT ![t] =
           LoadCheck(@, t, threads, registry, cache, sysModules, fs)]
    /\ UNCHANGED <<loaderVars, svcVars>>

\* Thread t calls BackendModuleLoader.load_backend_module({"NAME": name}, ns) itself.
TLoadBackendModule(t, ns, name) ==
    /\ threads[t].pc = "idle"
    /\ threads' = [threads EXCEPT ![t] =
           LoadCheck([IdleThread EXCEPT !.ns = ns, !.name = name],
                     t, threads, registry, cache, sysModules, fs)]
    /\ UNCHANGED <<loaderVars, svcVars>>

\* Thread t, after its cache miss, imports the module and gets the class (lines 89-91).
TLoadBind(t) ==
    /\ threads[t].pc = "bind"
    /\ \E r \in {BindAndCache(threads[t].name, threads[t].ns, registry, cache,
                               sysModules, fs)} :
           /\ sysModules' = r.mods
           /\ threads' = [threads EXCEPT ![t] =
                  IF r.exc # NoExc
                  THEN [@ EXCEPT !.pc = "done", !.exc = Raised(threads[t], r.exc)]
                  ELSE [@ EXCEPT !.pc = "store", !.provider_class = r.value]]
    /\ UNCHANGED <<fs, registry, cache, factory, scanned, resolved, fsChanges, last,
                   svcVars>>

\* Thread t writes the class into the cache and returns it (lines 92-94).
TLoadStore(t) ==
    /\ threads[t].pc = "store"
    /\ cache' = Put(cache, threads[t].name, threads[t].provider_class)
    /\ threads' = [threads EXCEPT ![t] =
           [@ EXCEPT !.pc = "done", !.value = threads[t].provider_class]]
    /\ UNCHANGED <<fs, sysModules, registry, factory, scanned, resolved, fsChanges,
                   last, svcVars>>

NextThreads ==
    \/ \E t \in Threads : \E ns \in ExistingNamespaces : \E name \in UnitNames :
           TConstruct(t, ns, name)
    \/ \E t \in Threads : TDiscoverStep(t)
    \/ \E t \in Threads : TGetBackend(t)
    \/ \E t \in Threads : \E ns \in ExistingNamespaces : \E name \in UnitNames :
           TLoadBackendModule(t, ns, name)
    \/ \E t \in Threads : TLoadBind(t)
    \/ \E t \in Threads : TLoadStore(t)

SpecThreads == Init /\ [][NextThreads]_vars

----------------------------------------------------------------------------
(* Properties *)

\* The last call was get_backend of the factory the caller holds.
GotBackend == last.op = "get_backend"

Debug == factory.settings.debug

Provider == factory.settings.provider

\* The settings name a provider: a dictionary with a non-empty NAME.
NamesProvider == Provider.kind = "dict" /\ Provider.NAME \notin {NoName, ""}

\* C1: with debug explicitly true, get_backend returns ConsoleSMSBackend and raises
\* nothing, whatever the provider block holds, and the call leaves the registry and
\* the cache as they were.
C1_DebugTrueReturnsFallback ==
    [][ (last'.op = "get_backend" /\ Debug = "true")
        => /\ last'.exc = NoExc
           /\ last'.value = ConsoleSMSBackend
           /\ registry' = registry
           /\ cache' = cache ]_vars

\* C1 witness: the fallback was returned for a provider block that is not even a
\* dictionary, in a process whose registry and cache are populated.
C1_Witness ==
    /\ GotBackend /\ Debug = "true" /\ Provider.kind = "notdict"
    /\ last.exc = NoExc /\ last.value = ConsoleSMSBackend
    /\ DOMAIN registry = UnitNames /\ DOMAIN cache # {}

\* C2: with no debug key at all, get_backend returns ConsoleSMSBackend and does not
\* attempt provider resolution.
C2_AbsentDebugReturnsFallback ==
    (GotBackend /\ Debug = "absent")
        => (last.exc = NoExc /\ last.value = ConsoleSMSBackend)

\* C3: with debug explicitly false and a provider block whose NAME is missing or
\* empty, get_backend fails with SMSConfigurationError, in every state of the
\* registry and the cache.
C3_MissingNameIsConfigurationError ==
    (GotBackend /\ Debug = "false" /\ Provider.kind = "dict"
        /\ Provider.NAME \in {NoName, ""})
        => /\ last.exc = "SMSConfigurationError"
           /\ last.raw = "SMSConfigurationError"
           /\ last.value = NoClass

\* C3 witness: the error was raised for an empty NAME while the cache held a class.
C3_Witness ==
    /\ GotBackend /\ Debug = "false" /\ Provider.kind = "dict" /\ Provider.NAME = ""
    /\ last.exc = "SMSConfigurationError"
    /\ DOMAIN cache # {}

\* C4: with debug explicitly false and a non-empty provider name that is not a key
\* of the registry, get_backend fails with SMSProviderNotFoundError and returns
\* neither a class nor the fallback.
C4_UnregisteredIsNotFound ==
    (GotBackend /\ Debug = "false" /\ NamesProvider
        /\ Provider.NAME \notin DOMAIN registry)
        => /\ last.exc = "SMSProviderNotFoundError"
           /\ last.value = NoClass

\* C4 witness: the error was raised for a name no unit has, after discovery had
\* registered both units.
C4_Witness ==
    /\ GotBackend /\ Debug = "false" /\ Provider.NAME = "not_registered"
    /\ DOMAIN registry = UnitNames
    /\ last.exc = "SMSProviderNotFoundError"

\* C5: two successive successful resolutions of the same name in the same
\* namespace, with nothing run between them, return the identical class.
C5_SuccessiveResolutionsAgree ==
    (GotBackend /\ ~SettingsGetDebug(factory.settings)
        /\ last.exc = NoExc /\ last.before # NoClass)
        => last.value = last.before

\* C5 witness: a provider class was returned twice in a row.
C5_Witness ==
    /\ GotBackend /\ Debug = "false" /\ last.exc = NoExc
    /\ last.before # NoClass /\ last.value = last.before
    /\ last.value.name = "First"

\* C6: once a name has been resolved, its cache entry is never replaced or removed,
\* and every later successful resolution of the name returns the class the first
\* one returned, whatever discovery passes, resolutions and edits of the unit
\* happened in between.
C6_CachedClassIsKept ==
    [][ /\ \A k \in DOMAIN cache : k \in DOMAIN cache' /\ cache'[k] = cache[k]
        /\ (last'.op = "get_backend" /\ ~SettingsGetDebug(factory.settings)
                /\ last'.exc = NoExc)
            => (Provider.NAME \in DOMAIN resolved'
                    /\ last'.value = resolved'[Provider.NAME]) ]_vars

\* C6 witness: sms_ir was resolved from the original unit, the unit file was then
\* removed, and two later resolutions still returned the original class.
C6_Witness ==
    /\ GotBackend /\ Debug = "false" /\ Provider.NAME = "sms_ir"
    /\ last.exc = NoExc /\ last.before # NoClass
    /\ fs["pkg_a"]["sms_ir"] = NoFile
    /\ last.value = ClassObj("SmsIr", "pkg_a", "sms_ir", "one")
    /\ resolved["sms_ir"] = last.value

\* C7: a discovery pass over a namespace that directly follows a pass over the same
\* namespace (the directories unchanged in between) leaves the registry map as the
\* first pass left it.
C7_DiscoveryIdempotent ==
    [][ (last.op = "init" /\ last'.op = "init" /\ last'.ns = last.ns /\ fs' = fs)
        => registry' = registry ]_vars

\* C7 witness: a namespace with two provider units was walked again, with no edit
\* of the directories so far.
C7_Witness ==
    /\ last.op = "init" /\ last.rescan /\ last.ns = "pkg_a" /\ last.exc = NoExc
    /\ fsChanges = 0
    /\ DOMAIN registry = UnitNames

\* C8: only the first construction for a namespace runs a discovery pass over it.
C8_ScanOncePerNamespace ==
    ~(last.op = "init" /\ last.rescan)

\* C9: discovery of a namespace that does not exist fails with
\* SMSConfigurationError.
C9_MissingNamespaceIsConfigurationError ==
    (last.op = "init" /\ last.ns \notin DOMAIN fs)
        => last.raw = "SMSConfigurationError"

\* C10: get_backend either returns a class or fails with one error of the
\* SMSBackendError taxonomy: a taxonomy error raised during resolution reaches the
\* caller as the same kind, any other exception reaches it as SMSUnexpectedError,
\* and no exception is swallowed.
C10_TypedOutcome ==
    GotBackend
        => /\ (last.exc = NoExc) = (last.value # NoClass)
           /\ last.exc # NoExc => IsSMSBackendError(last.exc)
           /\ (last.raw = NoExc) = (last.exc = NoExc)
           /\ IsSMSBackendError(last.raw) => last.exc = last.raw
           /\ (last.raw # NoExc /\ ~IsSMSBackendError(last.raw))
                  => last.exc = "SMSUnexpectedError"

\* C10 witness: a taxonomy error raised while a unit was being imported reached
\* the caller as the same kind.
C10_Witness ==
    /\ GotBackend
    /\ last.raw = "SMSProviderOperationError"
    /\ last.exc = "SMSProviderOperationError"

\* C11: a failure while a unit is inspected makes the construction fail with
\* SMSUnexpectedError, and no factory comes out of that construction.
C11_UnitFailureFailsConstruction ==
    [][ (last'.op = "init" /\ last'.raw # NoExc)
        => (last'.exc = "SMSUnexpectedError" /\ factory' = factory) ]_vars

\* C11 witness: a construction failed on a unit that raises ImportError while the
\* caller still held the factory of an earlier construction.
C11_Witness ==
    /\ last.op = "init" /\ last.raw = "ImportError"
    /\ last.exc = "SMSUnexpectedError"
    /\ factory.alive /\ factory.base_package = "pkg_b"

\* The provider class unit `unit` of namespace `ns` exposes first, as imported.
ExposedProvider(ns, unit) ==
    IF <<ns, unit>> \in DOMAIN sysModules
    THEN FirstProviderFrom(ModuleDict(ns, unit, sysModules[<<ns, unit>>]), 1)
    ELSE NoClass

\* C14: lookups are per namespace: resolving a name for a namespace that has no
\* provider unit of that name fails with SMSProviderNotFoundError, whatever other
\* namespaces registered or cached, and a class that is returned belongs to the
\* namespace of the factory.
C14_LookupPerNamespace ==
    (GotBackend /\ Debug = "false" /\ NamesProvider)
        => /\ (\/ last.ns \notin DOMAIN fs
               \/ Provider.NAME \notin UnitNames
               \/ (fs[last.ns][Provider.NAME] = NoFile
                      /\ <<last.ns, Provider.NAME>> \notin DOMAIN sysModules))
                  => last.exc = "SMSProviderNotFoundError"
           /\ last.exc = NoExc => last.value.ns = last.ns

\* C15: with debug explicitly false and a provider name that discovery registered,
\* get_backend returns the provider class discovery found in that unit and stores
\* it in the cache under the name.
C15_RegisteredNameResolves ==
    (GotBackend /\ Debug = "false" /\ NamesProvider
        /\ Provider.NAME \in DOMAIN registry)
        => /\ last.exc = NoExc
           /\ last.value = ExposedProvider(last.ns, Provider.NAME)
           /\ last.value.name = registry[Provider.NAME]
           /\ Provider.NAME \in DOMAIN cache
           /\ cache[Provider.NAME] = last.value

\* C16: after a discovery pass over a namespace, the key of each of its units is in
\* the registry if and only if the unit exposes a provider class, and the class
\* name recorded is that of the first one.
C16_RegisteredIffProvider ==
    (last.op = "init" /\ last.exc = NoExc /\ last.ns \in DOMAIN fs)
        => \A unit \in UnitNames :
               fs[last.ns][unit] # NoFile
                   => /\ (unit \in DOMAIN registry)
                          = (ExposedProvider(last.ns, unit) # NoClass)
                      /\ unit \in DOMAIN registry
                          => registry[unit] = ExposedProvider(last.ns, unit).name

\* C20: with debug explicitly false and no provider block at all, get_backend fails
\* with SMSConfigurationError.
C20_AbsentProviderIsConfigurationError ==
    (GotBackend /\ Debug = "false" /\ Provider.kind = "absent")
        => last.exc = "SMSConfigurationError"

\* The last SmsService call was one of the three send methods.
Sent == svcLast.op \in SendOps

\* The send made exactly one call, of the method of the same name, on the provider
\* the service is bound to, with the arguments the caller passed.
OneIdenticalCall ==
    /\ Len(svcLast.calls) = 1
    /\ svcLast.calls[1].op = svcLast.op
    /\ svcLast.calls[1].provider = svcProvider
    /\ svcLast.calls[1].args = svcLast.args

\* C12: each send method makes exactly one call of the provider's method of the
\* same name with identical arguments, and what that call returns or raises
\* reaches the service's caller unchanged.
C12_ResultPropagatesUnchanged ==
    Sent => (OneIdenticalCall /\ svcLast.out = svcLast.behaviour)

\* C12 as the code has it: exactly one call of the same-named method with
\* identical arguments; an exception the provider raises reaches the caller
\* unchanged; when the provider returns, the service returns None whatever the
\* value the provider returned.
C12_OneCallRaisePropagates ==
    Sent => /\ OneIdenticalCall
            /\ svcLast.behaviour.kind = "raise" => svcLast.out = svcLast.behaviour
            /\ svcLast.behaviour.kind = "return" => svcLast.out = Returns(None)

\* C12 witness: send_bulk_messages with two numbers reached a provider that
\* returned a message id, and the service returned None.
C12_Witness ==
    /\ svcLast.op = "send_bulk_messages"
    /\ Len(svcLast.args[1]) = 3
    /\ svcLast.behaviour = Returns(Str("message-id-1"))
    /\ svcLast.out = Returns(None)
    /\ OneIdenticalCall

\* C13: every call goes to the provider given by the latest SmsService(...) or
\* set_provider(...) and to no other, and a send leaves the binding as it was.
C13_SendsGoToLatestBinding ==
    [][ (received' # received)
        => /\ received' = [received EXCEPT ![requested] = @ + 1]
           /\ svcProvider' = svcProvider
           /\ svcProvider = requested ]_vars

\* C13 witness: stubA received a call, set_provider(stubB) followed, and the next
\* send reached stubB.
C13_Witness ==
    /\ Sent
    /\ svcLast.calls[1].provider = "stubB"
    /\ requested = "stubB"
    /\ received = [q \in Providers |-> 1]

\* C19: a send that set_provider interleaves with is dispatched to exactly one
\* provider, the one the send read from self._provider, whatever is bound when the
\* call is made.
C19_SendDispatchesToProviderRead ==
    [][ /\ (~inflight.active /\ inflight'.active) => inflight'.ref = svcProvider
        /\ (inflight.active /\ ~inflight'.active)
              => received' = [received EXCEPT ![inflight.ref] = @ + 1] ]_vars

\* C19 witness: set_provider(stubB) ran after a send had read stubA and before it
\* made its call; stubA received the call and stubB none.
C19_Witness ==
    /\ Sent
    /\ svcLast.ref = "stubA"
    /\ svcLast.calls[1].provider = "stubA"
    /\ svcProvider = "stubB"
    /\ received = [q \in Providers |-> IF q = "stubA" THEN 1 ELSE 0]

\* C17: while one thread's first discovery pass over a namespace is in progress,
\* no resolution by another thread fails with SMSProviderNotFoundError for a key
\* the complete pass registers, and no two threads both walk the same namespace.
C17_NoPartialRegistryNoSecondScan ==
    /\ \A t \in Threads : ~threads[t].partial
    /\ \A t, u \in Threads :
          (t # u /\ threads[t].walked /\ threads[u].walked)
              => threads[t].ns # threads[u].ns

\* C18: resolutions of the same name that each missed the cache return the same
\* class, and the cache entry of the name is that class once they have finished.
C18_RacingMissesAgree ==
    \A t, u \in Threads :
        ( /\ t # u
          /\ threads[t].pc = "done" /\ threads[u].pc = "done"
          /\ threads[t].miss /\ threads[u].miss
          /\ threads[t].name = threads[u].name
          /\ threads[t].exc = NoExc /\ threads[u].exc = NoExc )
        => /\ threads[t].value = threads[u].value
           /\ cache[threads[t].name] = threads[t].value

\* C21: the keys of the cache are keys of the registry in every state, and no
\* step removes a key from the registry or from the cache.
C21_CacheKeysRegisteredNeverShrink ==
    [][ /\ DOMAIN cache \subseteq DOMAIN registry
        /\ DOMAIN cache' \subseteq DOMAIN registry'
        /\ DOMAIN registry \subseteq DOMAIN registry'
        /\ DOMAIN cache \subseteq DOMAIN cache' ]_vars

\* C21 witness: a second discovery pass, over another namespace, ran after a
\* resolution had filled the cache; both names are registered, one is cached.
C21_Witness ==
    /\ last.op = "init" /\ last.exc = NoExc /\ last.ns = "pkg_b"
    /\ "pkg_a" \in scanned
    /\ DOMAIN cache = {"kavenegar"}
    /\ DOMAIN registry = {"sms_ir", "kavenegar"}

\* C22: a get_backend that raises leaves the registry and the cache as they were,
\* and the cache changes only in a get_backend that returns.
C22_FailedResolutionChangesNothing ==
    [][ /\ (last'.op = "get_backend" /\ last'.exc # NoExc)
              => (registry' = registry /\ cache' = cache)
        /\ (cache' # cache) => (last'.op = "get_backend" /\ last'.exc = NoExc) ]_vars

\* C22 witness: a resolution of a registered name failed while the class was
\* bound (the module has no attribute of the recorded name), with another name
\* in the cache and the failing name not in it.
C22_Witness ==
    /\ GotBackend /\ Debug = "false" /\ NamesProvider
    /\ last.raw = "AttributeError"
    /\ Provider.NAME \in DOMAIN registry
    /\ Provider.NAME \notin DOMAIN cache
    /\ cache # EmptyDict

\* The position in `files` of the first unit file whose import raises, 0 if none.
RECURSIVE FailingIndex(_, _, _, _, _)
FailingIndex(files, i, ns, mods, fsys) ==
    IF i > Len(files) THEN 0
    ELSE IF IsBackendFile(files[i])
            /\ ImportModule(ns, files[i].stem, mods, fsys).exc # NoExc
    THEN i
    ELSE FailingIndex(files, i + 1, ns, mods, fsys)

\* The units a pass over ns enumerates before the one it fails at, and after it.
UnitsBeforeFailure(ns, mods, fsys) ==
    LET files == Walk(fsys, ns)
        k == FailingIndex(files, 1, ns, mods, fsys)
    IN  { files[j].stem : j \in { x \in 1..Len(files) : x < k /\ IsBackendFile(files[x]) } }

UnitsAfterFailure(ns, mods, fsys) ==
    LET files == Walk(fsys, ns)
        k == FailingIndex(files, 1, ns, mods, fsys)
    IN  { files[j].stem : j \in { x \in 1..Len(files) : x > k /\ IsBackendFile(files[x]) } }

\* The units before the failure that expose a provider class.
RecordedBeforeFailure(ns, mods, fsys) ==
    { u \in UnitsBeforeFailure(ns, mods, fsys) :
        FirstProviderFrom(ModuleDict(ns, u, mods[<<ns, u>>]), 1) # NoClass }

\* A discovery pass that fails keeps the entries of the units before the failing
\* one and records nothing for the units after it.
FailedPassNotRolledBack ==
    (last'.op = "init" /\ last'.raw # NoExc /\ last'.ns \in DOMAIN fs)
        => /\ \A u \in RecordedBeforeFailure(last'.ns, sysModules', fs) :
                 /\ u \in DOMAIN registry'
                 /\ registry'[u]
                      = FirstProviderFrom(
                            ModuleDict(last'.ns, u, sysModules'[<<last'.ns, u>>]), 1).name
           /\ \A u \in UnitsAfterFailure(last'.ns, sysModules', fs) :
                 /\ (u \in DOMAIN registry') = (u \in DOMAIN registry)
                 /\ u \in DOMAIN registry => registry'[u] = registry[u]

\* A key the failed pass recorded resolves through the factory the caller holds.
RecordedKeyResolves ==
    ( /\ last.op = "init" /\ last.raw # NoExc /\ last.ns \in DOMAIN fs
      /\ last'.op = "get_backend"
      /\ Debug = "false" /\ NamesProvider
      /\ Provider.NAME \in RecordedBeforeFailure(last.ns, sysModules, fs) )
        => last'.exc = NoExc

\* C23: when a discovery pass fails at a unit, the entries of the units before it
\* stay in the registry, those keys resolve through a factory that already
\* exists, and the units after the failing one are not registered by that pass.
C23_FailedPassKeepsEarlierEntries ==
    [][ FailedPassNotRolledBack /\ RecordedKeyResolves ]_vars

====
